---- MODULE Spec2Model ----
(***************************************************************************)
(* Model of the IBC portal contract: the Amount type (src/src/amount.rs)   *)
(* and the instantiate / execute entry points with the transfer protocol   *)
(* (src/src/contract.rs).  The escrow ledger primitives, the packet type   *)
(* and the channel registry live in crate::state and crate::ibc, whose     *)
(* sources are not part of the tree; they are modelled from the design     *)
(* document and marked as such below.                                      *)
(***************************************************************************)
EXTENDS Integers, Sequences, FiniteSets, TLC

\* ------------------------------------------------------------------------
\* Bounds
\* ------------------------------------------------------------------------
\* Largest value of a Uint128 counter, scaled down from 2^128 - 1.
MaxU128 == 3
\* Number of requests (execute, decrease, query) per behaviour.
MaxRequests == 3
\* Longest tail of the strings drawn for the Amount round trips.
MaxTailLen == 2

\* Option<T>
None == [some |-> FALSE]
Some(v) == [some |-> TRUE, value |-> v]

\* ------------------------------------------------------------------------
\* Strings are sequences of one-character strings, so that prefixing and
\* slicing are computed and not assumed.
\* ------------------------------------------------------------------------
CW20_PREFIX == <<"c", "w", "2", "0", ":">>

starts_with(s, p) ==
    /\ Len(s) >= Len(p)
    /\ SubSeq(s, 1, Len(p)) = p

\* ------------------------------------------------------------------------
\* Amount (src/src/amount.rs)
\* ------------------------------------------------------------------------
Native(d, q) == [variant |-> "Native", denom |-> d, amount |-> q]
Cw20(addr, q) == [variant |-> "Cw20", address |-> addr, amount |-> q]

from_parts_off_by_one(d, q) ==
    IF starts_with(d, CW20_PREFIX)
    THEN Cw20(SubSeq(d, 5, Len(d)), q)
    ELSE Native(d, q)

from_parts(d, q) ==
    IF starts_with(d, CW20_PREFIX)
    THEN Cw20(SubSeq(d, 6, Len(d)), q)
    ELSE Native(d, q)

amount(a) == a.amount

denom(a) ==
    IF a.variant = "Native" THEN a.denom ELSE CW20_PREFIX \o a.address

is_empty(a) == a.amount = 0

\* ------------------------------------------------------------------------
\* Input universes of the contract model
\* ------------------------------------------------------------------------
ledgerA == <<"A">>
ledgerB == <<"B">>
\* Addresses the host's validator accepts; "!" stands for a malformed one.
ValidAddrs == {ledgerA, ledgerB}
AddrStrings == ValidAddrs \cup {<<"!">>}
\* The accounts that send a direct transfer, and the sender fields a cw20
\* notification carries.
Senders == {ledgerB}
WrapperSenders == {ledgerB, <<"!">>}
Whitelists == {<<>>, <<ledgerA>>, <<ledgerA, <<"!">> >>}

\* The channel identifiers, in ascending order of their bytes.
ChannelOrder == <<"chan-0", "chan-1">>
ChannelIds == {ChannelOrder[i] : i \in 1..Len(ChannelOrder)}
NativeDenoms == {<<"u">>, CW20_PREFIX \o ledgerA}
Quantities == {0, 1, MaxU128 - 1}
RemoteAddrs == {<<>>, <<"r">>}
Timeouts == {None, Some(30)}
DefaultTimeouts == {600}
BlockTimes == {1000}

\* The coins a sender attaches: every quantity of the plain denomination,
\* one unit of the denomination that begins with the cw20 prefix.
Coins ==
    {c \in [denom : NativeDenoms, amount : Quantities] :
        starts_with(c.denom, CW20_PREFIX) => c.amount = 1}
\* Attached funds: none, one coin, or two coins.
FundsSet ==
    {<<>>} \cup {<<c>> : c \in Coins}
           \cup {<<c, c>> : c \in {x \in Coins : x.amount = 1
                                                  /\ x.denom = <<"u">>}}

\* The transfer messages: an explicit timeout is drawn with a non-empty
\* remote address only.
TransferMsgs ==
    {m \in [channel : ChannelIds, remote_address : RemoteAddrs,
            timeout : Timeouts] :
        m.timeout.some => m.remote_address # <<>>}

\* An opaque Binary envelope: either the encoding of a TransferMsg or bytes
\* that do not decode to one.
Malformed == [encoding |-> "garbage"]
to_binary(m) == [encoding |-> "json", value |-> m]
Binaries == {to_binary(m) : m \in TransferMsgs} \cup {Malformed}
from_binary(b) ==
    IF b.encoding = "json" THEN [ok |-> TRUE, value |-> b.value]
    ELSE [ok |-> FALSE]

\* ------------------------------------------------------------------------
\* State
\* ------------------------------------------------------------------------
VARIABLES
    instantiated,   \* the contract exists
    CONFIG,         \* Item<Config>, None before instantiate
    WHITE_LIST,     \* Map<&Addr, bool>: the set of keys present
    CHANNEL_INFO,   \* Map<&str, ChannelInfo>: the set of registered ids
    CHANNEL_STATE,  \* Map<(&str, &str), ChannelState>: a partial function
    req,            \* the request handled last
    resp,           \* its outcome
    sum_sent,       \* history: per entry, the sum of the quantities of the
                    \* successful transfers
    decreased,      \* history: entries a compensating decrease was applied to
    init_whitelist, \* history: the whitelist passed to instantiate
    requests,       \* number of requests handled
    roundtrip       \* the Amount conversions applied to a drawn input

vars == <<instantiated, CONFIG, WHITE_LIST, CHANNEL_INFO, CHANNEL_STATE,
          req, resp, sum_sent, decreased, init_whitelist, requests,
          roundtrip>>

\* ------------------------------------------------------------------------
\* Collaborators
\* ------------------------------------------------------------------------
\* deps.api.addr_validate: Ok(Addr(s)) for a well-formed s, Err otherwise.
addr_validate(s) == s \in ValidAddrs

\* ChannelState::default()
ChannelState_default == [outstanding |-> 0, total_sent |-> 0]

\* CHANNEL_STATE.may_load(..).unwrap_or_default()
load_or_default(store, channel, key) ==
    IF <<channel, key>> \in DOMAIN store
    THEN store[<<channel, key>>]
    ELSE ChannelState_default

save(store, channel, key, v) ==
    [k \in DOMAIN store \cup {<<channel, key>>} |->
        IF k = <<channel, key>> THEN v ELSE store[k]]

\* Uint128::checked_add
checked_add(x, y) ==
    IF x + y > MaxU128 THEN [ok |-> FALSE] ELSE [ok |-> TRUE, value |-> x + y]

\* Uint128::checked_sub
checked_sub(x, y) ==
    IF y > x THEN [ok |-> FALSE] ELSE [ok |-> TRUE, value |-> x - y]

\* state::increase_channel_balance: load-or-default, add the amount to both
\* counters with checked addition, persist.
increase_channel_balance(store, channel, key, q) ==
    LET cur == load_or_default(store, channel, key)
        o == checked_add(cur.outstanding, q)
        t == checked_add(cur.total_sent, q)
    IN  IF o.ok /\ t.ok
        THEN [ok |-> TRUE,
              store |-> save(store, channel, key,
                             [outstanding |-> o.value, total_sent |-> t.value])]
        ELSE [ok |-> FALSE, store |-> store]

\* A decrease with wrapping in place of checked subtraction.
reduce_channel_balance_wrapping(store, channel, key, q) ==
    LET cur == load_or_default(store, channel, key)
    IN  [ok |-> TRUE,
         store |-> save(store, channel, key,
                        [outstanding |-> (cur.outstanding - q) % (MaxU128 + 1),
                         total_sent |-> cur.total_sent])]

\* state::reduce_channel_balance: the compensating decrease of the
\* acknowledgement / timeout handler.
reduce_channel_balance(store, channel, key, q) ==
    LET cur == load_or_default(store, channel, key)
        o == checked_sub(cur.outstanding, q)
    IN  IF o.ok
        THEN [ok |-> TRUE,
              store |-> save(store, channel, key,
                             [outstanding |-> o.value,
                              total_sent |-> cur.total_sent])]
        ELSE [ok |-> FALSE, store |-> store]

\* ibc::Ics20Packet::new
Ics20Packet_new(q, d, sender, receiver) ==
    [amount |-> q, denom |-> d, sender |-> sender, receiver |-> receiver]

\* ibc::Ics20Packet::validate: non-empty receiver, non-zero amount.
Ics20Packet_validate(p) == p.receiver # <<>> /\ p.amount # 0

\* ------------------------------------------------------------------------
\* Handlers (src/src/contract.rs)
\* ------------------------------------------------------------------------
Err(kind, store) ==
    [result |-> kind, store |-> store, messages |-> <<>>,
     attributes |-> <<>>, effects |-> <<>>]

\* The gates ahead of the packet, in program order: the kind of the first
\* one that fails, or "Pass".
transfer_gates_no_allow_list(msg, a) ==
    IF is_empty(a) THEN "NoFunds"
    ELSE IF msg.channel \notin CHANNEL_INFO THEN "NoSuchChannel"
    ELSE "Pass"

\* A variant that looks the channel up ahead of the emptiness check.
transfer_gates_channel_first(msg, a) ==
    IF msg.channel \notin CHANNEL_INFO THEN "NoSuchChannel"
    ELSE IF is_empty(a) THEN "NoFunds"
    ELSE IF a.variant = "Cw20" /\ ~addr_validate(a.address) THEN "Std"
    ELSE IF a.variant = "Cw20" /\ a.address \notin WHITE_LIST
         THEN "NotOnAllowList"
    ELSE "Pass"

\* A variant that holds a native denomination to the allow-list as well.
transfer_gates_native_listed(msg, a) ==
    IF is_empty(a) THEN "NoFunds"
    ELSE IF msg.channel \notin CHANNEL_INFO THEN "NoSuchChannel"
    ELSE IF a.variant = "Cw20" /\ ~addr_validate(a.address) THEN "Std"
    ELSE IF (IF a.variant = "Cw20" THEN a.address ELSE a.denom)
               \notin WHITE_LIST
         THEN "NotOnAllowList"
    ELSE "Pass"

transfer_gates(msg, a) ==
    IF is_empty(a) THEN "NoFunds"
    ELSE IF msg.channel \notin CHANNEL_INFO THEN "NoSuchChannel"
    ELSE IF a.variant = "Cw20" /\ ~addr_validate(a.address) THEN "Std"
    ELSE IF a.variant = "Cw20" /\ a.address \notin WHITE_LIST
         THEN "NotOnAllowList"
    ELSE "Pass"

\* The timeout delta in seconds: the request's own, else the configured one
\* (CONFIG.load fails on a missing item).
timeout_delta_always_default(msg) ==
    IF CONFIG.some THEN Some(CONFIG.value.default_timeout) ELSE None

timeout_delta(msg) ==
    IF msg.timeout.some THEN Some(msg.timeout.value)
    ELSE IF CONFIG.some THEN Some(CONFIG.value.default_timeout)
    ELSE None

\* env.block.time.plus_seconds(timeout_delta); times are kept in seconds and
\* drawn far below the range of the 64-bit nanosecond counter.
plus_seconds(time, delta) == time + delta

build_packet_swapped(msg, a, sender) ==
    Ics20Packet_new(amount(a), denom(a), msg.remote_address, sender)

build_packet(msg, a, sender) ==
    Ics20Packet_new(amount(a), denom(a), sender, msg.remote_address)

\* A variant that stores the amount as the entry instead of adding it.
escrow_overwrite(store, msg, a) ==
    [ok |-> TRUE,
     store |-> save(store, msg.channel, denom(a),
                    [outstanding |-> amount(a), total_sent |-> amount(a)])]

\* A variant that updates the entry of the first channel.
escrow_first_channel(store, msg, a) ==
    increase_channel_balance(store, ChannelOrder[1], denom(a), amount(a))

escrow_unit(store, msg, a) ==
    increase_channel_balance(store, msg.channel, denom(a), 1)

\* The optimistic update of the channel balance.
escrow(store, msg, a) ==
    increase_channel_balance(store, msg.channel, denom(a), amount(a))

\* IbcMsg::SendPacket
SendPacket(msg, packet, timeout) ==
    [channel_id |-> msg.channel, data |-> packet, timeout |-> timeout]

transfer_attributes(packet) ==
    << <<"action", "transfer">>,
       <<"sender", packet.sender>>,
       <<"receiver", packet.receiver>>,
       <<"denom", packet.denom>>,
       <<"amount", packet.amount>> >>

\* A variant that answers without the SendPacket message.
execute_transfer_no_emit(store, time, msg, a, sender) ==
    LET gate == transfer_gates(msg, a)
        delta == timeout_delta(msg)
    IN  IF gate # "Pass" THEN Err(gate, store)
        ELSE IF ~delta.some THEN Err("Std", store)
        ELSE
          LET packet == build_packet(msg, a, sender)
          IN  IF ~Ics20Packet_validate(packet)
              THEN Err("InvalidPacket", store)
              ELSE
                LET inc == escrow(store, msg, a)
                IN  IF ~inc.ok THEN Err("Overflow", inc.store)
                    ELSE [result |-> "Ok",
                          store |-> inc.store,
                          messages |-> <<>>,
                          attributes |-> transfer_attributes(packet),
                          effects |-> <<"increase_channel_balance">>]

\* A variant that drops the outcome of the balance update.
execute_transfer_ignoring_overflow(store, time, msg, a, sender) ==
    LET gate == transfer_gates(msg, a)
        delta == timeout_delta(msg)
    IN  IF gate # "Pass" THEN Err(gate, store)
        ELSE IF ~delta.some THEN Err("Std", store)
        ELSE
          LET timeout == plus_seconds(time, delta.value)
              packet == build_packet(msg, a, sender)
          IN  IF ~Ics20Packet_validate(packet)
              THEN Err("InvalidPacket", store)
              ELSE [result |-> "Ok",
                    store |-> escrow(store, msg, a).store,
                    messages |-> <<SendPacket(msg, packet, timeout)>>,
                    attributes |-> transfer_attributes(packet),
                    effects |-> <<"increase_channel_balance", "SendPacket">>]

\* A variant that updates the balance ahead of the packet's validation.
execute_transfer_escrow_first(store, time, msg, a, sender) ==
    LET gate == transfer_gates(msg, a)
        delta == timeout_delta(msg)
    IN  IF gate # "Pass" THEN Err(gate, store)
        ELSE IF ~delta.some THEN Err("Std", store)
        ELSE
          LET timeout == plus_seconds(time, delta.value)
              packet == build_packet(msg, a, sender)
              inc == escrow(store, msg, a)
          IN  IF ~inc.ok THEN Err("Overflow", inc.store)
              ELSE IF ~Ics20Packet_validate(packet)
                   THEN Err("InvalidPacket", inc.store)
              ELSE [result |-> "Ok",
                    store |-> inc.store,
                    messages |-> <<SendPacket(msg, packet, timeout)>>,
                    attributes |-> transfer_attributes(packet),
                    effects |-> <<"increase_channel_balance", "SendPacket">>]

\* The storage a handler returns is the storage as the handler left it: the
\* host's discard of a failed request's writes is not relied upon, so that a
\* write made ahead of a failing gate would show.  effects lists the
\* handler's effects in program order.
execute_transfer(store, time, msg, a, sender) ==
    LET gate == transfer_gates(msg, a)
        delta == timeout_delta(msg)
    IN  IF gate # "Pass" THEN Err(gate, store)
        ELSE IF ~delta.some THEN Err("Std", store)
        ELSE
          LET timeout == plus_seconds(time, delta.value)
              packet == build_packet(msg, a, sender)
          IN  IF ~Ics20Packet_validate(packet)
              THEN Err("InvalidPacket", store)
              ELSE
                LET inc == escrow(store, msg, a)
                IN  IF ~inc.ok THEN Err("Overflow", inc.store)
                    ELSE [result |-> "Ok",
                          store |-> inc.store,
                          messages |-> <<SendPacket(msg, packet, timeout)>>,
                          attributes |-> transfer_attributes(packet),
                          effects |-> <<"increase_channel_balance",
                                        "SendPacket">>]

execute_receive_trusting_wrapper(store, time, info, wrapper) ==
    LET decoded == from_binary(wrapper.msg)
    IN  IF ~decoded.ok THEN Err("Std", store)
        ELSE IF ~addr_validate(wrapper.sender) THEN Err("Std", store)
        ELSE execute_transfer(store, time, decoded.value,
                              Cw20(wrapper.sender, wrapper.amount),
                              wrapper.sender)

execute_receive(store, time, info, wrapper) ==
    LET decoded == from_binary(wrapper.msg)
    IN  IF ~decoded.ok THEN Err("Std", store)
        ELSE IF ~addr_validate(wrapper.sender) THEN Err("Std", store)
        ELSE execute_transfer(store, time, decoded.value,
                              Cw20(info.sender, wrapper.amount),
                              wrapper.sender)

execute_transfer_msg_first_coin(store, time, info, msg) ==
    IF Len(info.funds) = 0 THEN Err("PaymentNoFunds", store)
    ELSE IF info.funds[1].amount = 0 THEN Err("PaymentNoFunds", store)
    ELSE execute_transfer(store, time, msg,
                          Native(info.funds[1].denom, info.funds[1].amount),
                          info.sender)

\* The ExecuteMsg::Transfer arm of execute.
execute_transfer_msg(store, time, info, msg) ==
    IF Len(info.funds) = 0 THEN Err("PaymentNoFunds", store)
    ELSE IF Len(info.funds) = 1
         THEN IF info.funds[1].amount = 0 THEN Err("PaymentNoFunds", store)
              ELSE execute_transfer(store, time, msg,
                                    Native(info.funds[1].denom,
                                           info.funds[1].amount),
                                    info.sender)
    ELSE Err("PaymentMultipleDenoms", store)

execute_handler(store, time, info, msg) ==
    IF msg.kind = "Receive"
    THEN execute_receive(store, time, info, msg.body)
    ELSE execute_transfer_msg(store, time, info, msg.body)

NoReq == [kind |-> "none"]
NoResp == [op |-> "none", result |-> "none", messages |-> <<>>,
           attributes |-> <<>>, effects |-> <<>>, data |-> None]

Response(op, r) ==
    [op |-> op, result |-> r.result, messages |-> r.messages,
     attributes |-> r.attributes, effects |-> r.effects, data |-> None]

\* ------------------------------------------------------------------------
\* Queries (src/src/contract.rs)
\* ------------------------------------------------------------------------
\* The port the host bound to the contract (IbcQuery::PortId).
PORT_ID == "wasm.portal"

\* The bytes of the characters that occur in stored keys.
ByteOf ==
    [c \in {"0", "2", ":", "A", "B", "c", "u", "w"} |->
        CASE c = "0" -> 48 [] c = "2" -> 50 [] c = ":" -> 58
          [] c = "A" -> 65 [] c = "B" -> 66 [] c = "c" -> 99
          [] c = "u" -> 117 [] c = "w" -> 119]

\* s precedes t in the byte order of the storage keys.
KeyLess(s, t) ==
    \/ Len(s) < Len(t) /\ SubSeq(t, 1, Len(s)) = s
    \/ \E i \in 1..Len(s) :
          /\ i <= Len(t)
          /\ SubSeq(s, 1, i - 1) = SubSeq(t, 1, i - 1)
          /\ ByteOf[s[i]] < ByteOf[t[i]]

\* range(.., Order::Ascending) over a set of keys
RECURSIVE Ascending(_)
Ascending(S) ==
    IF S = {} THEN <<>>
    ELSE LET m == CHOOSE x \in S : \A y \in S \ {x} : KeyLess(x, y)
         IN  <<m>> \o Ascending(S \ {m})

QueryOk(v) == [result |-> "Ok", data |-> Some(v)]
QueryErr(kind) == [result |-> kind, data |-> None]

query_port == QueryOk([port_id |-> PORT_ID])

query_list ==
    QueryOk([channels |-> SelectSeq(ChannelOrder,
                                   LAMBDA c : c \in CHANNEL_INFO)])

\* CHANNEL_STATE.prefix(&id).range(..): the denomination keys stored under id
prefix_keys(id) == {k[2] : k \in {x \in DOMAIN CHANNEL_STATE : x[1] = id}}

query_channel_failing_on_empty(id) ==
    IF id \notin CHANNEL_INFO \/ prefix_keys(id) = {}
    THEN QueryErr("NotFound")
    ELSE LET keys == Ascending(prefix_keys(id))
         IN  QueryOk([info |-> id,
                      balances |->
                         [i \in 1..Len(keys) |->
                            from_parts(keys[i],
                               CHANNEL_STATE[<<id, keys[i]>>].outstanding)],
                      total_sent |->
                         [i \in 1..Len(keys) |->
                            from_parts(keys[i],
                               CHANNEL_STATE[<<id, keys[i]>>].total_sent)]])

query_channel(id) ==
    IF id \notin CHANNEL_INFO THEN QueryErr("NotFound")
    ELSE LET keys == Ascending(prefix_keys(id))
         IN  QueryOk([info |-> id,
                      balances |->
                         [i \in 1..Len(keys) |->
                            from_parts(keys[i],
                               CHANNEL_STATE[<<id, keys[i]>>].outstanding)],
                      total_sent |->
                         [i \in 1..Len(keys) |->
                            from_parts(keys[i],
                               CHANNEL_STATE[<<id, keys[i]>>].total_sent)]])

query_config ==
    IF ~CONFIG.some THEN QueryErr("NotFound")
    ELSE QueryOk([default_timeout |-> CONFIG.value.default_timeout])

query_whitelisted_inverted(contract) ==
    IF ~addr_validate(contract) THEN QueryErr("Std")
    ELSE QueryOk([is_whitelist |-> contract \notin WHITE_LIST])

query_whitelisted(contract) ==
    IF ~addr_validate(contract) THEN QueryErr("Std")
    ELSE QueryOk([is_whitelist |-> contract \in WHITE_LIST])

query(msg) ==
    CASE msg.kind = "Port" -> query_port
      [] msg.kind = "ListChannels" -> query_list
      [] msg.kind = "Channel" -> query_channel(msg.id)
      [] msg.kind = "Config" -> query_config
      [] msg.kind = "Whitelisted" -> query_whitelisted(msg.contract)

QueryMsgs ==
    {[kind |-> "Port"], [kind |-> "ListChannels"], [kind |-> "Config"]}
        \cup {[kind |-> "Channel", id |-> id] : id \in ChannelIds}
        \cup {[kind |-> "Whitelisted", contract |-> c] : c \in AddrStrings}

\* The entry of the ledger a request addresses, from the request alone.
ReqKey(info, msg) ==
    IF msg.kind = "Receive" THEN CW20_PREFIX \o info.sender
    ELSE IF Len(info.funds) >= 1 THEN info.funds[1].denom ELSE <<>>
ReqQuantity(info, msg) ==
    IF msg.kind = "Receive" THEN msg.body.amount
    ELSE IF Len(info.funds) >= 1 THEN info.funds[1].amount ELSE 0
ReqMsg(msg) ==
    IF msg.kind = "Receive" THEN from_binary(msg.body.msg) ELSE
    [ok |-> TRUE, value |-> msg.body]

Bump(f, k, q) ==
    [x \in DOMAIN f \cup {k} |->
        IF x = k THEN (IF k \in DOMAIN f THEN f[k] ELSE 0) + q ELSE f[x]]

\* ------------------------------------------------------------------------
\* Actions
\* ------------------------------------------------------------------------
NoRoundTrip == [from |-> "none", input |-> None, mid |-> None, out |-> None]

Contract0 ==
    /\ instantiated = FALSE
    /\ CONFIG = None
    /\ WHITE_LIST = {}
    /\ CHANNEL_INFO = {}
    /\ CHANNEL_STATE = <<>>
    /\ req = NoReq
    /\ resp = NoResp
    /\ sum_sent = <<>>
    /\ decreased = {}
    /\ init_whitelist = <<>>
    /\ requests = 0

Init ==
    /\ Contract0
    /\ roundtrip = NoRoundTrip

\* instantiate: a whitelist entry that does not validate fails the
\* instantiation, and the host then creates no contract (nothing is stored).
instantiate ==
    /\ ~instantiated
    /\ \E default_timeout \in DefaultTimeouts,
          whitelist \in Whitelists :
        LET ok == \A i \in 1..Len(whitelist) : addr_validate(whitelist[i])
        IN  /\ req' = [kind |-> "Instantiate",
                       default_timeout |-> default_timeout,
                       whitelist |-> whitelist]
            /\ IF ok
               THEN /\ instantiated' = TRUE
                    /\ CONFIG' = Some([default_timeout |-> default_timeout])
                    /\ WHITE_LIST' = {whitelist[i] : i \in 1..Len(whitelist)}
                    /\ init_whitelist' = whitelist
                    /\ resp' = [NoResp EXCEPT
                                  !.op = "instantiate", !.result = "Ok",
                                  !.attributes =
                                     << <<"action", "instantiate">>,
                                        <<"default_timeout",
                                          default_timeout>> >>]
               ELSE /\ UNCHANGED <<instantiated, CONFIG, WHITE_LIST,
                                   init_whitelist>>
                    /\ resp' = [NoResp EXCEPT
                                  !.op = "instantiate", !.result = "Std"]
    /\ UNCHANGED <<CHANNEL_INFO, CHANNEL_STATE, sum_sent, decreased, requests,
                   roundtrip>>

\* The channel handshake of crate::ibc registers a channel.
register_channel ==
    /\ instantiated
    /\ \E id \in ChannelIds :
        /\ id \notin CHANNEL_INFO
        /\ CHANNEL_INFO' = CHANNEL_INFO \cup {id}
        /\ req' = [kind |-> "RegisterChannel", channel |-> id]
        /\ resp' = [NoResp EXCEPT !.op = "ibc_channel_connect",
                                  !.result = "Ok"]
    /\ UNCHANGED <<instantiated, CONFIG, WHITE_LIST, CHANNEL_STATE,
                   sum_sent, decreased, init_whitelist, requests, roundtrip>>

Execute(time, info, msg) ==
    LET r == execute_handler(CHANNEL_STATE, time, info, msg)
        m == ReqMsg(msg)
    IN  /\ CHANNEL_STATE' = r.store
        /\ req' = [kind |-> msg.kind, time |-> time, info |-> info,
                   body |-> msg.body]
        /\ resp' = Response("execute", r)
        /\ sum_sent' =
             IF r.result = "Ok"
             THEN Bump(sum_sent, <<m.value.channel, ReqKey(info, msg)>>,
                       ReqQuantity(info, msg))
             ELSE sum_sent
        /\ requests' = requests + 1
        /\ UNCHANGED <<instantiated, CONFIG, WHITE_LIST, CHANNEL_INFO,
                       decreased, init_whitelist, roundtrip>>

\* execute with ExecuteMsg::Transfer
Transfer ==
    /\ instantiated
    /\ requests < MaxRequests
    /\ \E time \in BlockTimes, sender \in Senders, funds \in FundsSet,
          msg \in TransferMsgs :
        Execute(time, [sender |-> sender, funds |-> funds],
                [kind |-> "Transfer", body |-> msg])

\* execute with ExecuteMsg::Receive: the notification of a cw20 contract
Receive ==
    /\ instantiated
    /\ requests < MaxRequests
    /\ \E time \in BlockTimes, contract \in ValidAddrs,
          sender \in WrapperSenders, q \in Quantities, b \in Binaries :
        Execute(time, [sender |-> contract, funds |-> <<>>],
                [kind |-> "Receive",
                 body |-> [sender |-> sender, amount |-> q, msg |-> b]])

\* The acknowledgement / timeout handler's compensating decrease.
Decrease ==
    /\ instantiated
    /\ requests < MaxRequests
    /\ \E k \in DOMAIN CHANNEL_STATE, q \in Quantities \ {0} :
        LET r == reduce_channel_balance(CHANNEL_STATE, k[1], k[2], q)
        IN  /\ CHANNEL_STATE' = r.store
            /\ req' = [kind |-> "Decrease", channel |-> k[1], denom |-> k[2],
                       amount |-> q]
            /\ resp' = [NoResp EXCEPT
                          !.op = "on_packet_failure",
                          !.result = IF r.ok THEN "Ok"
                                     ELSE "InsufficientFunds"]
            /\ decreased' = IF r.ok THEN decreased \cup {k} ELSE decreased
    /\ requests' = requests + 1
    /\ UNCHANGED <<instantiated, CONFIG, WHITE_LIST, CHANNEL_INFO,
                   sum_sent, init_whitelist, roundtrip>>

\* query: the outcome is returned, nothing is stored.
Query ==
    /\ instantiated
    /\ requests < MaxRequests
    /\ \E msg \in QueryMsgs :
        LET r == query(msg)
        IN  /\ req' = msg
            /\ resp' = [NoResp EXCEPT !.op = "query", !.result = r.result,
                                      !.data = r.data]
    /\ requests' = requests + 1
    /\ UNCHANGED <<instantiated, CONFIG, WHITE_LIST, CHANNEL_INFO,
                   CHANNEL_STATE, sum_sent, decreased, init_whitelist,
                   roundtrip>>

Next ==
    \/ instantiate
    \/ register_channel
    \/ Transfer
    \/ Receive
    \/ Decrease
    \/ Query

Spec == Init /\ [][Next]_vars

\* ------------------------------------------------------------------------
\* The Amount conversions as a state machine over drawn inputs: an Amount is
\* projected to its (denomination key, quantity) parts and decoded again, and
\* a pair of parts is decoded and projected again.
\* ------------------------------------------------------------------------
\* Strings: a head that is a prefix of "cw20:", the prefix itself, a near
\* miss of it or the prefix twice, followed by any short tail.
Alphabet == {"a", "c", ":"}
Tails == UNION {[1..n -> Alphabet] : n \in 0..MaxTailLen}
Heads ==
    {SubSeq(CW20_PREFIX, 1, n) : n \in 0..Len(CW20_PREFIX)}
        \cup {<<"C", "w", "2", "0", ":">>, <<"c", "w", "2", "0", ";">>,
               <<"x">> \o CW20_PREFIX, CW20_PREFIX \o CW20_PREFIX}
Strings == {h \o t : h \in Heads, t \in Tails}
RoundTripQuantities == {0, MaxU128}
Amounts ==
    {Native(d, q) : d \in Strings, q \in RoundTripQuantities}
        \cup {Cw20(addr, q) : addr \in Strings, q \in RoundTripQuantities}
Parts == [denom : Strings, amount : RoundTripQuantities]

parts_of(a) == [denom |-> denom(a), amount |-> amount(a)]

contract_vars == <<instantiated, CONFIG, WHITE_LIST, CHANNEL_INFO,
                   CHANNEL_STATE, req, resp, sum_sent, decreased,
                   init_whitelist, requests>>

InitAmount ==
    /\ Contract0
    /\ \/ \E a \in Amounts :
            roundtrip = [from |-> "Amount", input |-> a,
                         mid |-> None, out |-> None]
       \/ \E p \in Parts :
            roundtrip = [from |-> "Parts", input |-> p,
                         mid |-> None, out |-> None]

\* a.denom() and a.amount()
CallDenom ==
    /\ \/ /\ roundtrip.from = "Amount"
          /\ ~roundtrip.mid.some
          /\ roundtrip' = [roundtrip EXCEPT
                              !.mid = Some(parts_of(roundtrip.input))]
       \/ /\ roundtrip.from = "Parts"
          /\ roundtrip.mid.some
          /\ ~roundtrip.out.some
          /\ roundtrip' = [roundtrip EXCEPT
                              !.out = Some(parts_of(roundtrip.mid.value))]
    /\ UNCHANGED contract_vars

\* Amount::from_parts(denom, amount)
CallFromParts ==
    /\ \/ /\ roundtrip.from = "Parts"
          /\ ~roundtrip.mid.some
          /\ roundtrip' = [roundtrip EXCEPT
                              !.mid = Some(from_parts(roundtrip.input.denom,
                                                      roundtrip.input.amount))]
       \/ /\ roundtrip.from = "Amount"
          /\ roundtrip.mid.some
          /\ ~roundtrip.out.some
          /\ roundtrip' = [roundtrip EXCEPT
                              !.out = Some(from_parts(roundtrip.mid.value.denom,
                                                      roundtrip.mid.value.amount))]
    /\ UNCHANGED contract_vars

NextAmount ==
    \/ CallDenom
    \/ CallFromParts

SpecAmount == InitAmount /\ [][NextAmount]_vars

\* ------------------------------------------------------------------------
\* Properties
\* ------------------------------------------------------------------------
\* The step just taken handled an execute request (Transfer or Receive).
ExecuteStep == requests' = requests + 1 /\ resp'.op = "execute"

\* The decoded transfer message of the request handled last.
LastMsg == ReqMsg(req).value
LastKey == ReqKey(req.info, req)
LastQuantity == ReqQuantity(req.info, req)

Keys(store) == DOMAIN store

\* Entry <<c, k>> of new is entry <<c, k>> of old (default when missing)
\* with q added to both counters, and no other entry differs.
IncreasedBy(old, new, c, k, q) ==
    /\ Keys(new) = Keys(old) \cup {<<c, k>>}
    /\ new[<<c, k>>].outstanding = load_or_default(old, c, k).outstanding + q
    /\ new[<<c, k>>].total_sent = load_or_default(old, c, k).total_sent + q
    /\ \A x \in Keys(old) \ {<<c, k>>} : new[x] = old[x]

\* Some counter of some entry of new is above its value in old.
Increased(old, new) ==
    \E x \in Keys(new) :
        \/ new[x].outstanding > load_or_default(old, x[1], x[2]).outstanding
        \/ new[x].total_sent > load_or_default(old, x[1], x[2]).total_sent

\* C1: a transfer request (Transfer or Receive) that is rejected, at whatever
\* gate, leaves the escrow ledger, the configuration and the allow-list as
\* they were and emits no packet.
C1_RejectionAtomic ==
    [][(ExecuteStep /\ resp'.result # "Ok") =>
          /\ CHANNEL_STATE' = CHANNEL_STATE
          /\ CONFIG' = CONFIG
          /\ WHITE_LIST' = WHITE_LIST
          /\ resp'.messages = <<>>]_vars

\* A request rejected at the last gate, over a ledger that has an entry.
C1_Witness ==
    /\ resp.op = "execute"
    /\ resp.result = "Overflow"
    /\ Keys(CHANNEL_STATE) # {}

\* C2: a request emits a packet iff it increased the ledger; a successful
\* transfer emits exactly one packet, on the requested channel, whose denom
\* and amount are the key and quantity the ledger entry was increased by and
\* whose receiver is the requested remote address; the increase comes first.
C2_EscrowEmissionCoupled ==
    [][ExecuteStep =>
          /\ (resp'.messages # <<>>) <=> Increased(CHANNEL_STATE, CHANNEL_STATE')
          /\ (resp'.messages # <<>>) <=> (resp'.result = "Ok")
          /\ resp'.result = "Ok" =>
                /\ Len(resp'.messages) = 1
                /\ LET m == resp'.messages[1]
                   IN  /\ m.channel_id = ReqMsg(req').value.channel
                       /\ m.data.receiver = ReqMsg(req').value.remote_address
                       /\ m.data.amount > 0
                       /\ IncreasedBy(CHANNEL_STATE, CHANNEL_STATE',
                                      m.channel_id, m.data.denom,
                                      m.data.amount)
                /\ resp'.effects = <<"increase_channel_balance",
                                     "SendPacket">>]_vars

\* A cw20 notification that was escrowed and emitted.
C2_Witness ==
    /\ resp.op = "execute"
    /\ req.kind = "Receive"
    /\ resp.result = "Ok"
    /\ Len(resp.messages) = 1
    /\ <<LastMsg.channel, LastKey>> \in Keys(CHANNEL_STATE)

\* C3: every ledger entry has 0 <= outstanding <= total_sent, in every state
\* reached by instantiate, transfers, notifications and decreases.
C3_LedgerInvariant ==
    \A x \in Keys(CHANNEL_STATE) :
        /\ 0 <= CHANNEL_STATE[x].outstanding
        /\ CHANNEL_STATE[x].outstanding <= CHANNEL_STATE[x].total_sent

\* A decrease was applied and left outstanding below total_sent.
C3_Witness ==
    /\ resp.op = "on_packet_failure"
    /\ resp.result = "Ok"
    /\ \E x \in Keys(CHANNEL_STATE) :
          CHANNEL_STATE[x].outstanding < CHANNEL_STATE[x].total_sent

\* C4: an entry's total_sent is the sum of the quantities of the successful
\* transfers over its (channel, key), and so is outstanding as long as no
\* decrease was applied to it; an entry exists only with such a history.
C4_LedgerAccumulates ==
    /\ Keys(CHANNEL_STATE) = DOMAIN sum_sent
    /\ \A x \in Keys(CHANNEL_STATE) :
          /\ CHANNEL_STATE[x].total_sent = sum_sent[x]
          /\ x \notin decreased => CHANNEL_STATE[x].outstanding = sum_sent[x]

\* A second successful transfer over the same entry.
C4_Witness ==
    /\ resp.op = "execute"
    /\ resp.result = "Ok"
    /\ LastQuantity = 1
    /\ <<LastMsg.channel, LastKey>> \notin decreased
    /\ CHANNEL_STATE[<<LastMsg.channel, LastKey>>].total_sent = 2

\* The notification decodes and its sender validates, so that a Ledgered
\* amount reaches the transfer protocol.
ReachesTransfer(r) ==
    /\ r.kind = "Receive"
    /\ from_binary(r.body.msg).ok
    /\ addr_validate(r.body.sender)

\* Neither counter of entry <<c, k>> overflows when q is added.
Fits(store, c, k, q) ==
    /\ load_or_default(store, c, k).outstanding + q <= MaxU128
    /\ load_or_default(store, c, k).total_sent + q <= MaxU128

\* C5 as stated: a Ledgered transfer (channel registered, amount non-zero)
\* from an address off the allow-list is rejected as not allow-listed with no
\* ledger change, and from an address on it succeeds and increases entry
\* (channel, "cw20:" + address) by the quantity.
C5_AllowListGating_Stated ==
    [][(/\ ExecuteStep
        /\ ReachesTransfer(req')
        /\ ReqMsg(req').value.channel \in CHANNEL_INFO
        /\ req'.body.amount # 0) =>
          IF req'.info.sender \notin WHITE_LIST
          THEN /\ resp'.result = "NotOnAllowList"
               /\ CHANNEL_STATE' = CHANNEL_STATE
          ELSE /\ resp'.result = "Ok"
               /\ IncreasedBy(CHANNEL_STATE, CHANNEL_STATE',
                              ReqMsg(req').value.channel,
                              CW20_PREFIX \o req'.info.sender,
                              req'.body.amount)]_vars

\* C5, amended: as stated, where the request from the listed address also
\* names a non-empty remote address and its quantity fits the entry's
\* counters.
C5_AllowListGating ==
    [][(/\ ExecuteStep
        /\ ReachesTransfer(req')
        /\ ReqMsg(req').value.channel \in CHANNEL_INFO
        /\ req'.body.amount # 0) =>
          IF req'.info.sender \notin WHITE_LIST
          THEN /\ resp'.result = "NotOnAllowList"
               /\ CHANNEL_STATE' = CHANNEL_STATE
          ELSE (/\ ReqMsg(req').value.remote_address # <<>>
                /\ Fits(CHANNEL_STATE, ReqMsg(req').value.channel,
                        CW20_PREFIX \o req'.info.sender, req'.body.amount)) =>
               /\ resp'.result = "Ok"
               /\ IncreasedBy(CHANNEL_STATE, CHANNEL_STATE',
                              ReqMsg(req').value.channel,
                              CW20_PREFIX \o req'.info.sender,
                              req'.body.amount)]_vars

\* A notification of the listed ledger was escrowed, in a state where the
\* other ledger is not listed.
C5_Witness ==
    /\ resp.op = "execute"
    /\ req.kind = "Receive"
    /\ resp.result = "Ok"
    /\ req.info.sender \in WHITE_LIST
    /\ ledgerB \notin WHITE_LIST
    /\ CHANNEL_STATE[<<LastMsg.channel, CW20_PREFIX \o req.info.sender>>]
          .total_sent = req.body.amount

\* C6 as stated: a direct Transfer with no coin is rejected (no funds), with
\* more than one coin is rejected (multiple denominations), with one coin of
\* zero quantity is rejected, and with one coin of non-zero quantity on a
\* registered channel succeeds and escrows the coin's quantity under the
\* coin's denomination.
C6_PaymentNormalization_Stated ==
    [][(ExecuteStep /\ req'.kind = "Transfer") =>
          LET funds == req'.info.funds
          IN  /\ Len(funds) = 0 => resp'.result = "PaymentNoFunds"
              /\ Len(funds) > 1 => resp'.result = "PaymentMultipleDenoms"
              /\ (Len(funds) = 1 /\ funds[1].amount = 0) =>
                    resp'.result = "PaymentNoFunds"
              /\ (/\ Len(funds) = 1
                  /\ funds[1].amount # 0
                  /\ req'.body.channel \in CHANNEL_INFO) =>
                    /\ resp'.result = "Ok"
                    /\ IncreasedBy(CHANNEL_STATE, CHANNEL_STATE',
                                   req'.body.channel, funds[1].denom,
                                   funds[1].amount)]_vars

\* C6, amended: as stated, where the request with one non-zero coin also
\* names a non-empty remote address and the coin's quantity fits the entry's
\* counters.
C6_PaymentNormalization ==
    [][(ExecuteStep /\ req'.kind = "Transfer") =>
          LET funds == req'.info.funds
          IN  /\ Len(funds) = 0 => resp'.result = "PaymentNoFunds"
              /\ Len(funds) > 1 => resp'.result = "PaymentMultipleDenoms"
              /\ (Len(funds) = 1 /\ funds[1].amount = 0) =>
                    resp'.result = "PaymentNoFunds"
              /\ (/\ Len(funds) = 1
                  /\ funds[1].amount # 0
                  /\ req'.body.channel \in CHANNEL_INFO
                  /\ req'.body.remote_address # <<>>
                  /\ Fits(CHANNEL_STATE, req'.body.channel, funds[1].denom,
                          funds[1].amount)) =>
                    /\ resp'.result = "Ok"
                    /\ IncreasedBy(CHANNEL_STATE, CHANNEL_STATE',
                                   req'.body.channel, funds[1].denom,
                                   funds[1].amount)]_vars

\* A direct transfer of one coin was escrowed on top of an earlier one.
C6_Witness ==
    /\ resp.op = "execute"
    /\ req.kind = "Transfer"
    /\ resp.result = "Ok"
    /\ Len(req.info.funds) = 1
    /\ CHANNEL_STATE[<<req.body.channel, req.info.funds[1].denom>>]
          .total_sent > req.info.funds[1].amount

\* A direct transfer with two coins attached was rejected.
C6_WitnessMultiple ==
    /\ resp.op = "execute"
    /\ req.kind = "Transfer"
    /\ Len(req.info.funds) = 2
    /\ resp.result = "PaymentMultipleDenoms"

\* C9: the deadline of a successful transfer's packet is the request's block
\* time plus the request's own timeout when it has one, else plus the
\* configured default_timeout.
C9_TimeoutResolution ==
    (resp.op = "execute" /\ resp.result = "Ok") =>
        resp.messages[1].timeout =
            req.time + (IF LastMsg.timeout.some THEN LastMsg.timeout.value
                        ELSE CONFIG.value.default_timeout)

\* A successful transfer whose own timeout differs from the default.
C9_Witness ==
    /\ resp.op = "execute"
    /\ resp.result = "Ok"
    /\ LastMsg.timeout.some
    /\ LastMsg.timeout.value # CONFIG.value.default_timeout

\* A successful transfer without a timeout of its own.
C9_WitnessDefault ==
    /\ resp.op = "execute"
    /\ resp.result = "Ok"
    /\ ~LastMsg.timeout.some

\* C10: a notification is processed as a Ledgered amount of the notifying
\* contract (the message sender) and the notification's quantity, with the
\* notification's sender field as packet sender; the embedded payload gives
\* only channel, remote address and timeout.
C10_ReceiveGroundTruth ==
    (resp.op = "execute" /\ req.kind = "Receive") =>
        /\ resp.result = "Ok" =>
              LET m == resp.messages[1]
              IN  /\ m.data.denom = CW20_PREFIX \o req.info.sender
                  /\ m.data.amount = req.body.amount
                  /\ m.data.sender = req.body.sender
                  /\ m.channel_id = LastMsg.channel
                  /\ m.data.receiver = LastMsg.remote_address
                  /\ <<m.channel_id, CW20_PREFIX \o req.info.sender>>
                        \in Keys(CHANNEL_STATE)
        /\ (ReachesTransfer(req) /\ req.body.amount = 0) =>
              resp.result = "NoFunds"
        /\ (/\ ReachesTransfer(req)
            /\ req.body.amount # 0
            /\ LastMsg.channel \in CHANNEL_INFO) =>
              (resp.result = "NotOnAllowList"
                  <=> req.info.sender \notin WHITE_LIST)

\* An escrowed notification whose sender field is not the notifying contract.
C10_Witness ==
    /\ resp.op = "execute"
    /\ req.kind = "Receive"
    /\ resp.result = "Ok"
    /\ req.body.sender # req.info.sender

\* d is "cw20:" followed by some rest.
HasCw20Prefix(d) ==
    \E n \in 0..Len(d) : d = CW20_PREFIX \o SubSeq(d, n + 1, Len(d))

\* C7 as stated: from_parts(a.denom(), a.amount()) is a, for an Amount a of
\* either variant.
C7_AmountRoundTrip ==
    (roundtrip.from = "Amount" /\ roundtrip.out.some) =>
        roundtrip.out.value = roundtrip.input

\* C8: from_parts(d, q).denom() is d and .amount() is q; a key "cw20:" + rest
\* decodes to the Ledgered variant with address rest, any other key to the
\* Native variant with that denomination.
C8_KeyRoundTrip ==
    roundtrip.from = "Parts" =>
        /\ roundtrip.mid.some =>
              LET d == roundtrip.input.denom
                  a == roundtrip.mid.value
              IN  /\ a.amount = roundtrip.input.amount
                  /\ HasCw20Prefix(d) =>
                        /\ a.variant = "Cw20"
                        /\ CW20_PREFIX \o a.address = d
                  /\ ~HasCw20Prefix(d) =>
                        /\ a.variant = "Native"
                        /\ a.denom = d
        /\ roundtrip.out.some => roundtrip.out.value = roundtrip.input

\* A key with the prefix and a non-empty rest was decoded and projected back.
C8_Witness ==
    /\ roundtrip.from = "Parts"
    /\ roundtrip.out.some
    /\ roundtrip.mid.value.variant = "Cw20"
    /\ roundtrip.mid.value.address # <<>>

\* The step just taken answered a query.
QueryStep == requests' = requests + 1 /\ resp'.op = "query"

\* The elements of a sequence.
Range(seq) == {seq[i] : i \in 1..Len(seq)}

\* C11: once instantiated, no request changes the allow-list or the
\* configured default_timeout, and the membership query for an address
\* answers true iff the address was in the whitelist passed to instantiate.
C11_AllowListFixed ==
    [][/\ instantiated =>
            /\ WHITE_LIST' = WHITE_LIST
            /\ CONFIG' = CONFIG
       /\ (QueryStep /\ req'.kind = "Whitelisted") =>
            ((resp'.result = "Ok" /\ resp'.data.value.is_whitelist)
                <=> req'.contract \in Range(init_whitelist'))
       /\ (QueryStep /\ req'.kind = "Config") =>
            /\ resp'.result = "Ok"
            /\ resp'.data.value.default_timeout
                  = CONFIG'.value.default_timeout]_vars

\* After a successful transfer the membership query answered true for the
\* listed ledger.
C11_Witness ==
    /\ resp.op = "query"
    /\ req.kind = "Whitelisted"
    /\ resp.result = "Ok"
    /\ resp.data.value.is_whitelist
    /\ Keys(CHANNEL_STATE) # {}

\* The request reaches the transfer protocol with a non-empty amount: a
\* notification that decodes and whose sender validates, or a direct
\* transfer with exactly one non-zero coin.
ReachesProtocol(r) ==
    \/ ReachesTransfer(r) /\ r.body.amount # 0
    \/ /\ r.kind = "Transfer"
       /\ Len(r.info.funds) = 1
       /\ r.info.funds[1].amount # 0

\* The quantity of request r does not fit the counters of the entry it
\* addresses in store.
WouldOverflow(store, r) ==
    /\ ReachesProtocol(r)
    /\ ~Fits(store, ReqMsg(r).value.channel, ReqKey(r.info, r),
             ReqQuantity(r.info, r))

\* C12 as stated: a transfer whose quantity would take the entry's
\* outstanding or total_sent over the maximum is rejected with the overflow
\* error, the ledger keeps its values and no packet is emitted.
C12_OverflowRejection_Stated ==
    [][(ExecuteStep /\ WouldOverflow(CHANNEL_STATE, req')) =>
          /\ resp'.result = "Overflow"
          /\ CHANNEL_STATE' = CHANNEL_STATE
          /\ resp'.messages = <<>>]_vars

\* C12, amended: such a transfer is rejected, the ledger keeps its values
\* and no packet is emitted; the rejection is the overflow error when the
\* request passes the gates ahead of the ledger (allow-list, non-empty
\* remote address), and an earlier gate's error otherwise.
C12_OverflowRejection ==
    [][(ExecuteStep /\ WouldOverflow(CHANNEL_STATE, req')) =>
          /\ resp'.result # "Ok"
          /\ CHANNEL_STATE' = CHANNEL_STATE
          /\ resp'.messages = <<>>
          /\ (/\ req'.kind = "Receive" => req'.info.sender \in WHITE_LIST
              /\ ReqMsg(req').value.remote_address # <<>>)
                <=> resp'.result = "Overflow"]_vars

\* A notification of the listed ledger was rejected for overflow.
C12_Witness ==
    /\ resp.op = "execute"
    /\ req.kind = "Receive"
    /\ resp.result = "Overflow"
    /\ CHANNEL_STATE[<<LastMsg.channel, LastKey>>].total_sent + LastQuantity
          > MaxU128

\* The entries of the ledger stored under channel id.
EntriesOf(id) == {x \in Keys(CHANNEL_STATE) : x[1] = id}

\* C13: a query changes nothing that is stored; the list and config queries
\* and the query of a registered channel succeed, the latter with
\* one (outstanding, total_sent) pair per denomination key that has history
\* on the channel, carrying the entry's stored quantities, and so with empty
\* sequences for a channel without history.
C13_QueriesPure ==
    [][QueryStep =>
          /\ UNCHANGED <<instantiated, CONFIG, WHITE_LIST, CHANNEL_INFO,
                         CHANNEL_STATE>>
          /\ req'.kind \in {"ListChannels", "Config"} =>
                resp'.result = "Ok"
          /\ (req'.kind = "Channel" /\ req'.id \in CHANNEL_INFO) =>
                /\ resp'.result = "Ok"
                /\ LET d == resp'.data.value
                       es == EntriesOf(req'.id)
                   IN  /\ Len(d.balances) = Cardinality(es)
                       /\ Len(d.total_sent) = Cardinality(es)
                       /\ \A x \in es :
                            \E i \in 1..Len(d.balances) :
                               /\ denom(d.balances[i]) = x[2]
                               /\ amount(d.balances[i])
                                     = CHANNEL_STATE[x].outstanding
                               /\ denom(d.total_sent[i]) = x[2]
                               /\ amount(d.total_sent[i])
                                     = CHANNEL_STATE[x].total_sent]_vars

\* A registered channel without history was queried while the other channel
\* has history.
C13_Witness ==
    /\ resp.op = "query"
    /\ req.kind = "Channel"
    /\ resp.result = "Ok"
    /\ resp.data.value.balances = <<>>
    /\ resp.data.value.total_sent = <<>>
    /\ Keys(CHANNEL_STATE) # {}

\* A channel with two denomination keys of history was queried.
C13_WitnessHistory ==
    /\ resp.op = "query"
    /\ req.kind = "Channel"
    /\ resp.result = "Ok"
    /\ Len(resp.data.value.balances) = 2

\* C14: from one state to the next no entry disappears and no entry's
\* total_sent decreases, whatever the request (transfer, notification or
\* compensating decrease); only outstanding may decrease.
C14_TotalSentMonotone ==
    [][\A x \in Keys(CHANNEL_STATE) :
          /\ x \in Keys(CHANNEL_STATE')
          /\ CHANNEL_STATE'[x].total_sent >= CHANNEL_STATE[x].total_sent]_vars

\* A decrease lowered outstanding of an entry that two transfers had built
\* up, and its total_sent is still their sum.
C14_Witness ==
    /\ resp.op = "on_packet_failure"
    /\ resp.result = "Ok"
    /\ \E x \in Keys(CHANNEL_STATE) :
          /\ x = <<req.channel, req.denom>>
          /\ CHANNEL_STATE[x].total_sent = 2
          /\ CHANNEL_STATE[x].outstanding < 2

\* The gates of the transfer protocol in the order of the design, by the
\* rejection each reports.
GateOrder ==
    <<"NoFunds", "NoSuchChannel", "NotOnAllowList", "InvalidPacket",
      "Overflow">>

\* Request r, handled over ledger store, fails the gate that reports g.
FailsGate(g, store, r) ==
    CASE g = "NoFunds" -> ReqQuantity(r.info, r) = 0
      [] g = "NoSuchChannel" -> ReqMsg(r).value.channel \notin CHANNEL_INFO
      [] g = "NotOnAllowList" ->
            r.kind = "Receive" /\ r.info.sender \notin WHITE_LIST
      [] g = "InvalidPacket" -> ReqMsg(r).value.remote_address = <<>>
      [] g = "Overflow" ->
            ~Fits(store, ReqMsg(r).value.channel, ReqKey(r.info, r),
                  ReqQuantity(r.info, r))

\* The gates request r fails, by their position in the order.
FailedGates(store, r) ==
    {i \in 1..Len(GateOrder) : FailsGate(GateOrder[i], store, r)}

\* C15: a request handed to the transfer protocol that fails one or more
\* gates is rejected with the rejection of the earliest gate it fails, in
\* the order empty amount, unknown channel, allow-list, packet validation,
\* ledger overflow; a request that fails none succeeds.
C15_GateOrder ==
    [][(ExecuteStep /\ (ReachesTransfer(req') \/ ReachesProtocol(req'))) =>
          LET failed == FailedGates(CHANNEL_STATE, req')
          IN  IF failed = {} THEN resp'.result = "Ok"
              ELSE \E i \in failed :
                      /\ \A j \in failed : i <= j
                      /\ resp'.result = GateOrder[i]]_vars

\* The notification of a ledger that is not listed, with quantity zero, over
\* a channel that is not registered, was rejected as no funds.
C15_Witness ==
    /\ resp.op = "execute"
    /\ ReachesTransfer(req)
    /\ req.body.amount = 0
    /\ LastMsg.channel \notin CHANNEL_INFO
    /\ req.info.sender \notin WHITE_LIST
    /\ resp.result = "NoFunds"

\* The same with a non-zero quantity was rejected as no such channel.
C15_WitnessChannel ==
    /\ resp.op = "execute"
    /\ ReachesTransfer(req)
    /\ req.body.amount # 0
    /\ LastMsg.channel \notin CHANNEL_INFO
    /\ req.info.sender \notin WHITE_LIST
    /\ LastMsg.remote_address = <<>>
    /\ resp.result = "NoSuchChannel"

\* C16: every transfer request ends either emitted (accepted, with the
\* ledger update followed by exactly one packet) or rejected (no packet, no
\* effect), never both; a rejected request has not changed the ledger, and a
\* request that changed the ledger ends emitted.
C16_RequestStateMachine ==
    [][ExecuteStep =>
          LET mutated == CHANNEL_STATE' # CHANNEL_STATE
              emitted == /\ resp'.result = "Ok"
                         /\ Len(resp'.messages) = 1
                         /\ resp'.effects = <<"increase_channel_balance",
                                              "SendPacket">>
              rejected == /\ resp'.result # "Ok"
                          /\ resp'.messages = <<>>
                          /\ resp'.effects = <<>>
          IN  /\ emitted \/ rejected
              /\ ~(emitted /\ rejected)
              /\ rejected => ~mutated
              /\ mutated => emitted
              /\ emitted => mutated]_vars

\* A direct transfer went through escrow to emission.
C16_Witness ==
    /\ resp.op = "execute"
    /\ req.kind = "Transfer"
    /\ resp.result = "Ok"
    /\ resp.effects = <<"increase_channel_balance", "SendPacket">>
    /\ <<LastMsg.channel, LastKey>> \in Keys(CHANNEL_STATE)

\* C17 as stated: a direct transfer with one non-zero native coin on a
\* registered channel succeeds, whatever the allow-list holds.
C17_NativeBypass_Stated ==
    [][(/\ ExecuteStep
        /\ req'.kind = "Transfer"
        /\ Len(req'.info.funds) = 1
        /\ req'.info.funds[1].amount # 0
        /\ req'.body.channel \in CHANNEL_INFO) =>
          resp'.result = "Ok"]_vars

\* C17, amended: no direct transfer is rejected as not allow-listed, and one
\* with one non-zero native coin on a registered channel, a non-empty remote
\* address and a quantity that fits the entry's counters succeeds, whatever
\* the allow-list holds.
C17_NativeBypass ==
    [][(ExecuteStep /\ req'.kind = "Transfer") =>
          /\ resp'.result # "NotOnAllowList"
          /\ (/\ Len(req'.info.funds) = 1
              /\ req'.info.funds[1].amount # 0
              /\ req'.body.channel \in CHANNEL_INFO
              /\ req'.body.remote_address # <<>>
              /\ Fits(CHANNEL_STATE, req'.body.channel,
                      req'.info.funds[1].denom, req'.info.funds[1].amount)) =>
                resp'.result = "Ok"]_vars

\* A direct transfer succeeded under an empty allow-list.
C17_Witness ==
    /\ resp.op = "execute"
    /\ req.kind = "Transfer"
    /\ resp.result = "Ok"
    /\ WHITE_LIST = {}

\* C18 as stated: an entry whose key is "cw20:" + A is increased only by a
\* notification of ledger contract A with A on the allow-list, never by a
\* direct transfer of a native coin.
C18_Cw20NamespaceProtected ==
    [][ExecuteStep =>
          \A x \in Keys(CHANNEL_STATE') :
             (/\ HasCw20Prefix(x[2])
              /\ CHANNEL_STATE'[x].total_sent
                    > load_or_default(CHANNEL_STATE, x[1], x[2]).total_sent) =>
                /\ req'.kind = "Receive"
                /\ x[2] = CW20_PREFIX \o req'.info.sender
                /\ req'.info.sender \in WHITE_LIST]_vars

\* C19: a successful transfer on channel c with denomination key k leaves
\* every ledger entry other than (c, k), the channel registry, the
\* configuration and the allow-list as they were.
C19_TransferFrame ==
    [][(ExecuteStep /\ resp'.result = "Ok") =>
          LET c == ReqMsg(req').value.channel
              k == ReqKey(req'.info, req')
          IN  /\ Keys(CHANNEL_STATE') = Keys(CHANNEL_STATE) \cup {<<c, k>>}
              /\ \A x \in Keys(CHANNEL_STATE) \ {<<c, k>>} :
                    CHANNEL_STATE'[x] = CHANNEL_STATE[x]
              /\ CHANNEL_STATE'[<<c, k>>]
                    # load_or_default(CHANNEL_STATE, c, k)
              /\ UNCHANGED <<CHANNEL_INFO, CONFIG, WHITE_LIST>>]_vars

\* A transfer succeeded on the second channel while the first channel holds
\* an entry, under the same and under another denomination key.
C19_Witness ==
    /\ resp.op = "execute"
    /\ resp.result = "Ok"
    /\ LastMsg.channel = ChannelOrder[2]
    /\ <<ChannelOrder[1], LastKey>> \in Keys(CHANNEL_STATE)
    /\ \E x \in Keys(CHANNEL_STATE) : x[1] = ChannelOrder[1] /\ x[2] # LastKey
====
